---- MODULE Spec2Model ----
(***************************************************************************)
(* Workflow execution engine of backend/engine.py with the blocks of       *)
(* backend/blocks: one asyncio execution task per workflow, the pause /    *)
(* resume protocol, and the two batched enrichment blocks.                 *)
(*                                                                         *)
(* Scheduling: asyncio is cooperative.  A step of the model is the code a  *)
(* coroutine runs between two real suspension points (executor I/O, a      *)
(* client call, the join of a batch).  `await on_progress(..)` runs a      *)
(* coroutine that never suspends, so it is not a scheduling point.         *)
(***************************************************************************)
EXTENDS Integers, Sequences, FiniteSets, TLC

\* ---------------------------------------------------------------- bounds
\* Rows of the CSV files the reader block can load.
MaxRows == 4

\* ------------------------------------------------------- program constants
PreviewRows == 10
ProgressStart == 10
ProgressDone == 100
EnrichDefaultConcurrent == 1
FindEmailDefaultConcurrent == 10

\* Workflow identifiers the callers can name (uuid4 values).  Spec follows
\* one created workflow: the other identifier stays unknown to the engine
\* and is what callers pass as an unknown id.
WIds == {1, 2}
SpecIds == {1}
RowKeys == 0..(MaxRows - 1)

\* --------------------------------------------------------------- values
\* Optional[T]: None is <<>>, a present value v is <<v>>.
None == <<>>
Some(v) == <<v>>
IsNone(o) == o = <<>>
Get(o) == o[1]

\* A missing cell (NaN / None).  Other cells are positive integers.
Null == 0
notna(v) == v # Null
Truthy(v) == v # Null

Min(a, b) == IF a < b THEN a ELSE b
Max(a, b) == IF a > b THEN a ELSE b

\* dict.get(key, default)
ConfigGet(config, key, default) ==
    IF key \in DOMAIN config THEN config[key] ELSE default

\* WorkflowStatus / BlockStatus values
PENDING == "pending"
RUNNING == "running"
PAUSED == "paused"
COMPLETED == "completed"
FAILED == "failed"

\* BlockType values
READ_CSV == "read_csv"
SAVE_CSV == "save_csv"
FILTER == "filter"
ENRICH_LEAD == "enrich_lead"
FIND_EMAIL == "find_email"
BlockType == {READ_CSV, SAVE_CSV, FILTER, ENRICH_LEAD, FIND_EMAIL}
BLOCK_CLASSES == BlockType

\* --------------------------------------------------------------- frames
\* A DataFrame: ordered columns, ordered rows; a row has its index label
\* (key) and one cell per column.
Frame(cols, rows) == [cols |-> cols, rows |-> rows]
ColSet(f) == {f.cols[j] : j \in 1..Len(f.cols)}
HasCol(f, c) == c \in ColSet(f)
FrameLen(f) == Len(f.rows)
FrameKeys(f) == [p \in 1..Len(f.rows) |-> f.rows[p].key]

\* result_df[col] = None  (a new column, missing in every row)
AddCol(f, c) ==
    IF HasCol(f, c) THEN f
    ELSE Frame(Append(f.cols, c),
               [p \in 1..Len(f.rows) |->
                   [key |-> f.rows[p].key,
                    cells |-> [d \in ColSet(f) \cup {c} |->
                                  IF d \in ColSet(f) THEN f.rows[p].cells[d]
                                  ELSE Null]]])

\* A write by position (iloc) where the code writes by index label.
SetAt_ByPosition(f, idx, c, v) ==
    Frame(f.cols,
          [p \in 1..Len(f.rows) |->
              IF p = idx + 1
              THEN [f.rows[p] EXCEPT !.cells[c] = v]
              ELSE f.rows[p]])

\* result_df.at[idx, col] = value  (by index label)
SetAt(f, idx, c, v) ==
    Frame(f.cols,
          [p \in 1..Len(f.rows) |->
              IF f.rows[p].key = idx
              THEN [f.rows[p] EXCEPT !.cells[c] = v]
              ELSE f.rows[p]])

CellOf(f, idx, c) ==
    LET p == CHOOSE q \in 1..Len(f.rows) : f.rows[q].key = idx
    IN f.rows[p].cells[c]

\* df.head(n)
Head10(f) == SubSeq(f.rows, 1, Min(PreviewRows, Len(f.rows)))

\* df[mask].copy(): the rows whose mask entry is true, in order, labels kept
RECURSIVE SelectRows(_, _)
SelectRows(rows, mask) ==
    IF rows = <<>> THEN <<>>
    ELSE IF mask[1] THEN <<rows[1]>> \o SelectRows(Tail(rows), Tail(mask))
         ELSE SelectRows(Tail(rows), Tail(mask))

\* ---------------------------------------------------------------- files
\* The data directory.  Cell values carry the row they belong to, so a
\* value written to the wrong row is visible.
CompanyOf(k) == IF k % 2 = 0 THEN 1 ELSE 2
NameOf(k) == 100 + k
EmailOf(k) == 200 + k
FoundOf(k) == 300 + k
EnrichedOf(k) == 400 + k

FileNames == {"leads.csv", "mixed.csv"}
BaseCols == <<"name", "company", "email">>
FileRow(name, k) ==
    [key |-> k,
     cells |-> [c \in {"name", "company", "email"} |->
                  CASE c = "name" -> NameOf(k)
                    [] c = "company" -> CompanyOf(k)
                    [] OTHER -> IF name = "mixed.csv" /\ k % 2 = 1
                                THEN EmailOf(k) ELSE Null]]
\* pd.read_csv: a RangeIndex 0..n-1
FileFrame(name) == Frame(BaseCols, [p \in 1..MaxRows |-> FileRow(name, p - 1)])


ExistingFiles == FileNames

\* ------------------------------------------------------ block definitions
\* {"type": .., "config": {..}} as main.py hands them to the engine.
Read(path) == [type |-> READ_CSV, config |-> [file_path |-> path]]
Save == [type |-> SAVE_CSV, config |-> [file_name |-> "out.csv"]]
Filter(col, op, val) ==
    [type |-> FILTER, config |-> [column |-> col, operator |-> op, value |-> val]]
Enrich(bs, mc) ==
    [type |-> ENRICH_LEAD, config |-> [batch_size |-> bs, max_concurrent |-> mc]]
FindEmail(out, bs) ==
    [type |-> FIND_EMAIL, config |-> [output_column |-> out, batch_size |-> bs]]

\* The workflows a caller can submit (POST /workflows/execute).
WorkflowInputs ==
    << <<Read("leads.csv"), Enrich(1, 1)>>,
       <<Read("leads.csv"), Enrich(2, 2), Save>>,
       <<Read("mixed.csv"), FindEmail("found_email", 1)>>,
       <<Read("leads.csv"), FindEmail("email", 1)>>,
       <<Read("leads.csv"), Filter("company", "equals", CompanyOf(0)), Enrich(1, 1)>>,
       <<Read("leads.csv"), Filter("company", "matches", CompanyOf(0)), Save>>,
       <<Read("leads.csv"), Enrich(2, 1), FindEmail("found_email", 2)>>,
       <<Read("missing.csv"), Save>>,
       <<Filter("company", "is_not_null", Null)>>,
       <<>>,
       <<Read("leads.csv"), Filter("company", "equals", CompanyOf(0)), Enrich(2, 2)>>,
       <<Read("leads.csv"), Filter("company", "equals", CompanyOf(0)), Save>>,
       <<Read("leads.csv"), Filter("email", "is_not_null", Null), Enrich(1, 1)>>,
       <<Read("leads.csv"), Filter("email", "is_not_null", Null),
         Filter("company", "is_not_null", Null)>> >>

\* Outcome of one client call, fixed per row by the remote service:
\*   "ok"   EnrichmentResult(success=True, data=<mapping>)
\*   "fail" EnrichmentResult(success=False, error=..)
\*   "bad"  EnrichmentResult(success=True, data=<a JSON value that is no mapping>)
\* The first such payload a block meets ends the execution, so the service
\* is taken to send at most one.
Responses == {"ok", "fail", "bad"}

\* ------------------------------------------------------------------ state
VARIABLES
    workflows,    \* keys of engine.workflows (the value of key w is heap[w])
    heap,         \* the WorkflowState objects, by the id they were created for
    dataframes,   \* engine._dataframes: id -> Optional frame
    task,         \* the execution coroutine of each workflow: position and locals
    resp,         \* the remote service: row key -> outcome of a call for that row
    hist,         \* observations of the run (calls issued, frames handed over)
    lastOp,       \* the engine call made by the last step, with what it returned
    freeIds       \* identifiers uuid4 has not handed out yet

vars == <<workflows, heap, dataframes, task, resp, hist, lastOp, freeIds>>

\* BlockProgress(block_id, block_type)
BlockProgress(kind) ==
    [block_type |-> kind, status |-> PENDING, progress |-> 0, error |-> None]

\* WorkflowState(workflow_id, blocks)
WorkflowState(blocks) ==
    [status |-> PENDING,
     blocks |-> blocks,
     current_block_index |-> 0,
     error |-> None,
     result_preview |-> None,
     result_columns |-> None,
     result_row_count |-> 0,
     pause_requested |-> FALSE,
     last_processed_row |-> 0,
     blocks_config |-> None]

\* No object yet for this id.
NoState == [WorkflowState(<<>>) EXCEPT !.status = "absent"]

\* Locals of execute_workflow and of the block it is inside.
\*   pc: "nil" no coroutine; "new" scheduled by main.py, not started;
\*       "read_io" / "save_io" awaiting the executor; "gather" awaiting the
\*       batch; "spin" looping without suspension; "returned"; "raised"
NoTask ==
    [pc |-> "nil", blocks |-> <<>>, i |-> 0, start_block_index |-> 0,
     start_row |-> 0, current_df |-> None, result_df |-> Frame(<<>>, <<>>),
     rows |-> <<>>, total |-> 0, current_row |-> 0, batch_end |-> 0,
     tasks |-> <<>>]

BlockIdx == 0..2

\* calls[<<i, k>>]: client calls issued by block i for the row labelled k;
\* input[i]: the row labels of the frame block i was entered with.
\* reordered: some task resolved while a task before it in its batch had not.
NoHist ==
    [calls |-> [x \in BlockIdx \X RowKeys |-> 0],
     input |-> [i \in BlockIdx |-> <<>>],
     lastOut |-> None,
     pauseFrame |-> None,
     everPaused |-> FALSE,
     resumedAt |-> -1,
     pauseAcc |-> None,
     reordered |-> FALSE]

\* again: the call found the flag it sets already set.
NoOp == [op |-> "step", w |-> 0, ret |-> "-", again |-> FALSE]
Op(name, w, ret) == [op |-> name, w |-> w, ret |-> ret, again |-> FALSE]

Init ==
    /\ workflows = {}
    /\ heap = [w \in WIds |-> NoState]
    /\ dataframes = [w \in WIds |-> None]
    /\ task = [w \in WIds |-> NoTask]
    /\ resp \in [RowKeys -> Responses]
    /\ \A j, k \in RowKeys : resp[j] = "bad" /\ resp[k] = "bad" => j = k
    /\ hist = [w \in WIds |-> NoHist]
    /\ lastOp = NoOp
    /\ freeIds = SpecIds

\* ------------------------------------------------------------ the engine
\* A context c is what one synchronous stretch of execute_workflow works on:
\*   st  the WorkflowState object, df the _dataframes entry of the workflow,
\*   t   the coroutine's locals,   h  the observations.

\* on_progress (engine.py 180-181)
on_progress(c, p) == [c EXCEPT !.st.blocks[c.t.i + 1].progress = p]

\* int((current_row / total_rows) * 100): int() truncates towards zero
ProgressOf(current_row, total_rows) ==
    IF current_row >= 0 THEN (current_row * 100) \div total_rows
    ELSE 0 - (((0 - current_row) * 100) \div total_rows)

\* A store that leaves out the refresh of result_row_count (lines 211, 233).
StoreFrame_StaleCount(c, f) ==
    [c EXCEPT !.df = Some(f),
              !.st.result_columns = Some(f.cols),
              !.st.result_preview = Some(Head10(f))]

\* engine.py 207-213 and 229-235: store a frame and refresh the derived fields
StoreFrame(c, f) ==
    [c EXCEPT !.df = Some(f),
              !.st.result_columns = Some(f.cols),
              !.st.result_row_count = FrameLen(f),
              !.st.result_preview = Some(Head10(f))]

\* A failure handler that leaves out line 249 (no error on the block).
HandleException_NoBlockError(c, msg) ==
    LET cbi == c.st.current_block_index
        st1 == [c.st EXCEPT !.status = FAILED, !.error = Some(msg)]
        st2 == IF cbi < Len(st1.blocks)
               THEN [st1 EXCEPT !.blocks[cbi + 1].status = FAILED]
               ELSE st1
    IN [c EXCEPT !.st = st2, !.t.pc = "returned"]

\* A failure handler that stores the block's working frame, as the pause
\* handler does with the partial frame.
HandleException_StoresWorkingFrame(c, msg) ==
    LET cbi == c.st.current_block_index
        st1 == [c.st EXCEPT !.status = FAILED, !.error = Some(msg)]
        st2 == IF cbi < Len(st1.blocks)
               THEN [st1 EXCEPT !.blocks[cbi + 1].status = FAILED,
                                !.blocks[cbi + 1].error = Some(msg)]
               ELSE st1
    IN [c EXCEPT !.st = st2, !.t.pc = "returned",
                 !.df = IF c.t.tasks # <<>> THEN Some(c.t.result_df) ELSE c.df]

\* except Exception (engine.py 241-251)
HandleException(c, msg) ==
    LET cbi == c.st.current_block_index
        st1 == [c.st EXCEPT !.status = FAILED, !.error = Some(msg)]
        st2 == IF cbi < Len(st1.blocks)
               THEN [st1 EXCEPT !.blocks[cbi + 1].status = FAILED,
                                !.blocks[cbi + 1].error = Some(msg)]
               ELSE st1
    IN [c EXCEPT !.st = st2, !.t.pc = "returned"]

\* A pause handler that forgets line 226 (the status stays RUNNING).
HandlePause_KeepsStatus(c, partial_df, last_processed_row) ==
    LET c1 == [c EXCEPT !.st.last_processed_row = last_processed_row]
        c2 == StoreFrame(c1, partial_df)
        cbi == c2.st.current_block_index
        c3 == IF cbi < Len(c2.st.blocks)
              THEN [c2 EXCEPT !.st.blocks[cbi + 1].status = PAUSED]
              ELSE c2
    IN [c3 EXCEPT !.t.pc = "returned",
                  !.h.pauseFrame = Some(partial_df),
                  !.h.everPaused = TRUE]

\* A pause handler that leaves out lines 238-239 (the block stays RUNNING).
HandlePause_NoBlockMark(c, partial_df, last_processed_row) ==
    LET c1 == [c EXCEPT !.st.status = PAUSED,
                        !.st.last_processed_row = last_processed_row]
        c2 == StoreFrame(c1, partial_df)
    IN [c2 EXCEPT !.t.pc = "returned",
                  !.h.pauseFrame = Some(partial_df),
                  !.h.everPaused = TRUE]

\* A pause handler that takes the request back once it has honoured it.
HandlePause_ClearsFlag(c, partial_df, last_processed_row) ==
    LET c1 == [c EXCEPT !.st.status = PAUSED,
                        !.st.pause_requested = FALSE,
                        !.st.last_processed_row = last_processed_row]
        c2 == StoreFrame(c1, partial_df)
        cbi == c2.st.current_block_index
        c3 == IF cbi < Len(c2.st.blocks)
              THEN [c2 EXCEPT !.st.blocks[cbi + 1].status = PAUSED]
              ELSE c2
    IN [c3 EXCEPT !.t.pc = "returned",
                  !.h.pauseFrame = Some(partial_df),
                  !.h.everPaused = TRUE]

\* except PauseException (engine.py 222-239, 251)
HandlePause(c, partial_df, last_processed_row) ==
    LET c1 == [c EXCEPT !.st.status = PAUSED,
                        !.st.last_processed_row = last_processed_row]
        c2 == StoreFrame(c1, partial_df)
        cbi == c2.st.current_block_index
        c3 == IF cbi < Len(c2.st.blocks)
              THEN [c2 EXCEPT !.st.blocks[cbi + 1].status = PAUSED]
              ELSE c2
    IN [c3 EXCEPT !.t.pc = "returned",
                  !.h.pauseFrame = Some(partial_df),
                  !.h.everPaused = TRUE]


\* ------------------------------------------------------------- the blocks
BlockDef(c) == c.t.blocks[c.t.i + 1]
\* block_def.get("config", {})
Config(c) == BlockDef(c).config

\* api_blocks.py 51-52 and 165-166
max_concurrent(c) ==
    ConfigGet(Config(c), "max_concurrent",
              IF BlockDef(c).type = ENRICH_LEAD THEN EnrichDefaultConcurrent
              ELSE FindEmailDefaultConcurrent)
batch_size(c) == ConfigGet(Config(c), "batch_size", max_concurrent(c))
output_col(c) == ConfigGet(Config(c), "output_column", "found_email")
skip_existing(c) == ConfigGet(Config(c), "skip_existing", TRUE)

\* rows_list[a:b] of Python, for any integers a and b
PySlice(s, a, b) ==
    LET n == Len(s)
        lo == IF a < 0 THEN Max(n + a, 0) ELSE Min(a, n)
        hi == IF b < 0 THEN Max(n + b, 0) ELSE Min(b, n)
    IN IF lo >= hi THEN <<>> ELSE SubSeq(s, lo + 1, hi)

\* The mapping a successful enrich_lead call returns for row k, as its items
\* in order; the engine prefixes the key to name the column.
EnrichData(k) ==
    << [key |-> "success", col |-> "enriched_success", value |-> 1],
       [key |-> IF k % 2 = 0 THEN "title" ELSE "school",
        col |-> IF k % 2 = 0 THEN "enriched_title" ELSE "enriched_school",
        value |-> EnrichedOf(k)] >>

\* api_blocks.py 110-116: one successful result written to the frame
RECURSIVE ApplyEnrichData(_, _, _)
ApplyEnrichData(f, idx, items) ==
    IF items = <<>> THEN f
    ELSE LET it == items[1]
             f1 == IF it.key \notin {"success", "error"}
                   THEN SetAt(AddCol(f, it.col), idx, it.col, it.value)
                   ELSE f
         IN ApplyEnrichData(f1, idx, Tail(items))

\* api_blocks.py 232-235: data.get("email", data.get("found_email"))
ApplyFoundEmail(f, idx, out) ==
    LET email == FoundOf(idx)
    IN IF Truthy(email) THEN SetAt(f, idx, out, email) ELSE f

\* api_blocks.py 108-116 / 231-235: the results of a batch, in task order.
\* A success whose data is no mapping makes data.items() / data.get raise.
RECURSIVE ApplyResults(_, _, _, _, _)
ApplyResults(kind, f, tasks, out, rs) ==
    IF tasks = <<>> THEN [raised |-> FALSE, f |-> f]
    ELSE LET idx == tasks[1].key
         IN CASE rs[idx] = "bad" -> [raised |-> TRUE, f |-> f]
              [] rs[idx] = "fail" -> ApplyResults(kind, f, Tail(tasks), out, rs)
              [] OTHER ->
                   ApplyResults(kind,
                                IF kind = ENRICH_LEAD
                                THEN ApplyEnrichData(f, idx, EnrichData(idx))
                                ELSE ApplyFoundEmail(f, idx, out),
                                Tail(tasks), out, rs)

\* A client call goes out for the row of a task that got a semaphore permit.
CountCall(h, i, k) == [h EXCEPT !.calls[<<i, k>>] = @ + 1]

RECURSIVE CountCalls(_, _, _)
CountCalls(h, i, tasks) ==
    IF tasks = <<>> THEN h
    ELSE CountCalls(IF tasks[1].st = "run" THEN CountCall(h, i, tasks[1].key) ELSE h,
                    i, Tail(tasks))

\* Tasks that start their client call without the semaphore.
StartTasks_NoSemaphore(batch_rows, mc) ==
    [p \in 1..Len(batch_rows) |-> [key |-> batch_rows[p], st |-> "run"]]

\* tasks = [enrich_row(idx, row) for ..]; await gather: the tasks start in
\* order and the first max_concurrent of them pass the semaphore.
StartTasks(batch_rows, mc) ==
    [p \in 1..Len(batch_rows) |->
        [key |-> batch_rows[p], st |-> IF p <= mc THEN "run" ELSE "wait"]]

\* A find-email that keeps every row a candidate (skip_existing ignored).
SkipsRow_Never(c, df, p) == FALSE

\* api_blocks.py 168-178: the rows find-email copies, and the candidates
SkipsRow(c, df, p) ==
    /\ skip_existing(c)
    /\ HasCol(df, "email")
    /\ notna(df.rows[p].cells["email"])
    /\ Truthy(df.rows[p].cells["email"])

FindEmailPrepare(c, df) ==
    LET out == output_col(c)
        r0 == AddCol(df, out)
    IN Frame(r0.cols,
             [p \in 1..Len(r0.rows) |->
                 IF SkipsRow(c, df, p)
                 THEN [r0.rows[p] EXCEPT !.cells[out] = df.rows[p].cells["email"]]
                 ELSE r0.rows[p]])

rows_to_process(c, df) ==
    SelectRows(FrameKeys(df), [p \in 1..Len(df.rows) |-> ~SkipsRow(c, df, p)])

\* filter_block.py 49-73: the mask of one row; FALSE for an unknown operator
KnownOperators ==
    {"contains", "equals", "not_equals", "is_true", "is_false", "is_null",
     "is_not_null"}
FilterMask(operator, value, cell) ==
    CASE operator = "contains" -> notna(cell) /\ (value = Null \/ cell = value)
      [] operator = "equals" -> cell = value
      [] operator = "not_equals" -> cell # value
      [] operator = "is_null" -> ~notna(cell)
      [] operator = "is_not_null" -> notna(cell)
      [] OTHER -> FALSE


\* ---------------------------------------------- execute_workflow, by stretch
RECURSIVE RunLoop(_)

\* An engine that leaves out line 203 (the block stays RUNNING).
BlockCompleted_KeepsRunning(c, out) ==
    LET i == c.t.i
        c1 == [c EXCEPT !.st.blocks[i + 1].progress = ProgressDone]
        c2 == StoreFrame(c1, out)
    IN RunLoop([c2 EXCEPT !.t.current_df = Some(out),
                          !.t.start_row = 0,
                          !.t.i = i + 1,
                          !.t.tasks = <<>>,
                          !.h.lastOut = Some(out),
                          !.h.pauseFrame = None,
                          !.h.resumedAt = -1])

\* engine.py 202-216: the block returned; then the next iteration of the loop
BlockCompleted(c, out) ==
    LET i == c.t.i
        c1 == [c EXCEPT !.st.blocks[i + 1].status = COMPLETED,
                        !.st.blocks[i + 1].progress = ProgressDone]
        c2 == StoreFrame(c1, out)
    IN RunLoop([c2 EXCEPT !.t.current_df = Some(out),
                          !.t.start_row = 0,
                          !.t.i = i + 1,
                          !.t.tasks = <<>>,
                          !.h.lastOut = Some(out),
                          !.h.pauseFrame = None,
                          !.h.resumedAt = -1])

\* api_blocks.py 65-126 / 191-245: the batch loop, from its head up to the
\* next suspension (the join of a batch), a pause, an error or the return.
RECURSIVE BatchLoop(_)

\* A batch loop without the pause check at its head (lines 67-75 dropped).
BatchLoop_NoPauseCheck(c) ==
    LET t == c.t
        bs == batch_size(c)
        mc == max_concurrent(c)
    IN
    IF t.current_row < t.total
    THEN LET batch_end == Min(t.current_row + bs, t.total)
             batch_rows == PySlice(t.rows, t.current_row, batch_end)
             tasks == StartTasks(batch_rows, mc)
         IN IF mc < 0
            THEN HandleException(c, "Semaphore initial value must be >= 0")
            ELSE IF batch_rows # <<>>
            THEN [c EXCEPT !.t.pc = "gather",
                           !.t.batch_end = batch_end,
                           !.t.tasks = tasks,
                           !.h = CountCalls(c.h, t.i, tasks)]
            ELSE IF bs = 0 \/ t.current_row < 0
            THEN [c EXCEPT !.t.pc = "spin"]
            ELSE BatchLoop(on_progress([c EXCEPT !.t.current_row = batch_end],
                                       ProgressOf(batch_end, t.total)))
    ELSE BlockCompleted(c, t.result_df)

BatchLoop(c) ==
    LET t == c.t
        bs == batch_size(c)
        mc == max_concurrent(c)
    IN
    IF t.current_row < t.total
    THEN IF c.st.pause_requested
         THEN HandlePause(c, t.result_df, t.current_row)
         ELSE LET batch_end == Min(t.current_row + bs, t.total)
                  batch_rows == PySlice(t.rows, t.current_row, batch_end)
                  tasks == StartTasks(batch_rows, mc)
              IN IF mc < 0
                 THEN HandleException(c, "Semaphore initial value must be >= 0")
                 ELSE IF batch_rows # <<>>
                 THEN [c EXCEPT !.t.pc = "gather",
                                !.t.batch_end = batch_end,
                                !.t.tasks = tasks,
                                !.h = CountCalls(c.h, t.i, tasks)]
                 ELSE IF bs = 0 \/ t.current_row < 0
                 THEN [c EXCEPT !.t.pc = "spin"]
                 ELSE BatchLoop(on_progress([c EXCEPT !.t.current_row = batch_end],
                                            ProgressOf(batch_end, t.total)))
    ELSE BlockCompleted(c, t.result_df)

\* A block that raises on a row whose result is a failure.
AfterGather_FailFatal(c, rs) ==
    LET t == c.t
        applied == ApplyResults(BlockDef(c).type, t.result_df, t.tasks,
                                output_col(c), rs)
    IN IF applied.raised \/ \E p \in 1..Len(t.tasks) : rs[t.tasks[p].key] = "fail"
       THEN HandleException(c, "row failed")
       ELSE BatchLoop(on_progress([c EXCEPT !.t.result_df = applied.f,
                                           !.t.current_row = t.batch_end,
                                           !.t.tasks = <<>>],
                                  ProgressOf(t.batch_end, t.total)))

\* A block whose cursor moves by one row per joined batch.
AfterGather_CursorByRow(c, rs) ==
    LET t == c.t
        applied == ApplyResults(BlockDef(c).type, t.result_df, t.tasks,
                                output_col(c), rs)
    IN IF applied.raised
       THEN HandleException(c, "object has no attribute")
       ELSE BatchLoop(on_progress([c EXCEPT !.t.result_df = applied.f,
                                           !.t.current_row = t.current_row + 1,
                                           !.t.tasks = <<>>],
                                  ProgressOf(t.current_row + 1, t.total)))

\* api_blocks.py 105-123 / 228-242: the batch is joined; its results are
\* applied, the cursor moves to the end of the batch, progress is reported.
AfterGather(c, rs) ==
    LET t == c.t
        applied == ApplyResults(BlockDef(c).type, t.result_df, t.tasks,
                                output_col(c), rs)
    IN IF applied.raised
       THEN HandleException(c, "object has no attribute")
       ELSE BatchLoop(on_progress([c EXCEPT !.t.result_df = applied.f,
                                           !.t.current_row = t.batch_end,
                                           !.t.tasks = <<>>],
                                  ProgressOf(t.batch_end, t.total)))

\* EnrichLeadBlock.execute up to its first suspension (api_blocks.py 33-65)
EnrichLeadStart(c, df, start_row) ==
    IF IsNone(df) \/ FrameLen(Get(df)) = 0
    THEN HandleException(c, "No DataFrame or empty DataFrame to enrich")
    ELSE BatchLoop([c EXCEPT !.h.input[c.t.i] = FrameKeys(Get(df)),
                             !.t.result_df = Get(df),
                             !.t.rows = FrameKeys(Get(df)),
                             !.t.total = FrameLen(Get(df)),
                             !.t.current_row = start_row])

\* FindEmailBlock.execute up to its first suspension (api_blocks.py 154-191)
FindEmailStart(c, df, start_row) ==
    IF IsNone(df) \/ FrameLen(Get(df)) = 0
    THEN HandleException(c, "No DataFrame or empty DataFrame")
    ELSE LET result_df == FindEmailPrepare(c, Get(df))
             todo == rows_to_process(c, Get(df))
         IN IF todo = <<>>
            THEN BlockCompleted(on_progress(c, ProgressDone), result_df)
            ELSE BatchLoop([c EXCEPT !.h.input[c.t.i] = FrameKeys(Get(df)),
                                     !.t.result_df = result_df,
                                     !.t.rows = todo,
                                     !.t.total = Len(todo),
                                     !.t.current_row = start_row])

\* ReadCSVBlock.execute up to run_in_executor (csv_blocks.py 33-61)
ReadCSVStart(c) ==
    LET file_path == ConfigGet(Config(c), "file_path", "")
    IN IF file_path = ""
       THEN HandleException(c, "file_path is required for ReadCSV block")
       ELSE IF file_path \notin ExistingFiles
       THEN HandleException(c, "CSV file not found")
       ELSE [on_progress(c, ProgressStart) EXCEPT !.t.pc = "read_io"]

\* A reader that looks at the pause flag when the read returned.
ReadCSVFinish_ChecksPause(c) ==
    IF c.st.pause_requested
    THEN HandlePause(c, FileFrame(ConfigGet(Config(c), "file_path", "")), 0)
    ELSE BlockCompleted(on_progress(c, ProgressDone),
                        FileFrame(ConfigGet(Config(c), "file_path", "")))

\* csv_blocks.py 61-66: the read returned
ReadCSVFinish(c) ==
    BlockCompleted(on_progress(c, ProgressDone),
                   FileFrame(ConfigGet(Config(c), "file_path", "")))

\* SaveCSVBlock.execute up to run_in_executor (csv_blocks.py 88-104)
SaveCSVStart(c, df) ==
    IF IsNone(df)
    THEN HandleException(c, "No DataFrame to save")
    ELSE [on_progress(c, ProgressStart) EXCEPT !.t.pc = "save_io"]

\* csv_blocks.py 104-111: the write returned; the frame is passed through
SaveCSVFinish(c) ==
    BlockCompleted(on_progress(c, ProgressDone), Get(c.t.current_df))

\* FilterBlock.execute, which never suspends (filter_block.py 31-80)
FilterExecute(c, df) ==
    LET column == ConfigGet(Config(c), "column", "")
        operator == ConfigGet(Config(c), "operator", "contains")
        value == ConfigGet(Config(c), "value", Null)
    IN IF IsNone(df)
       THEN HandleException(c, "No DataFrame to filter")
       ELSE IF column = ""
       THEN HandleException(c, "column is required for Filter block")
       ELSE IF ~HasCol(Get(df), column)
       THEN HandleException(c, "Column not found in DataFrame")
       ELSE IF operator \notin KnownOperators
       THEN HandleException(on_progress(c, ProgressStart), "Unknown operator")
       ELSE LET f == Get(df)
                mask == [p \in 1..Len(f.rows) |->
                            FilterMask(operator, value, f.rows[p].cells[column])]
            IN BlockCompleted(on_progress(c, ProgressDone),
                              Frame(f.cols, SelectRows(f.rows, mask)))

\* An engine that re-enters the paused block at row 0 (line 191 dropped).
EnterBlock_FromRowZero(c) ==
    LET i == c.t.i
        kind == BlockDef(c).type
        c1 == [c EXCEPT !.st.current_block_index = i,
                        !.st.blocks[i + 1].status = RUNNING]
        df == c.t.current_df
    IN IF kind \notin BlockType
       THEN HandleException(c, "is not a valid BlockType")
       ELSE CASE kind = READ_CSV -> ReadCSVStart(c1)
              [] kind = SAVE_CSV -> SaveCSVStart(c1, df)
              [] kind = FILTER -> FilterExecute(c1, df)
              [] kind = ENRICH_LEAD -> EnrichLeadStart(c1, df, 0)
              [] OTHER -> FindEmailStart(c1, df, 0)

\* An engine that records the block's position counted from one (line 173).
EnterBlock_OneBased(c) ==
    LET i == c.t.i
        kind == BlockDef(c).type
        block_start_row == IF i = c.t.start_block_index THEN c.t.start_row ELSE 0
        c1 == [c EXCEPT !.st.current_block_index = i + 1,
                        !.st.blocks[i + 1].status = RUNNING]
        df == c.t.current_df
    IN IF kind \notin BlockType
       THEN HandleException(c, "is not a valid BlockType")
       ELSE CASE kind = READ_CSV -> ReadCSVStart(c1)
              [] kind = SAVE_CSV -> SaveCSVStart(c1, df)
              [] kind = FILTER -> FilterExecute(c1, df)
              [] kind = ENRICH_LEAD -> EnrichLeadStart(c1, df, block_start_row)
              [] OTHER -> FindEmailStart(c1, df, block_start_row)

\* engine.py 169-200: one iteration of the loop over the blocks, for index i
EnterBlock(c) ==
    LET i == c.t.i
        kind == BlockDef(c).type
        block_start_row == IF i = c.t.start_block_index THEN c.t.start_row ELSE 0
        c1 == [c EXCEPT !.st.current_block_index = i,
                        !.st.blocks[i + 1].status = RUNNING]
        df == c.t.current_df
    IN IF kind \notin BlockType
       THEN HandleException(c, "is not a valid BlockType")
       ELSE CASE kind = READ_CSV -> ReadCSVStart(c1)
              [] kind = SAVE_CSV -> SaveCSVStart(c1, df)
              [] kind = FILTER -> FilterExecute(c1, df)
              [] kind = ENRICH_LEAD -> EnrichLeadStart(c1, df, block_start_row)
              [] OTHER -> FindEmailStart(c1, df, block_start_row)

\* A loop that does not skip the completed blocks on resume (166-167 dropped).
RunLoop_NoFastForward(c) ==
    IF c.t.i >= Len(c.t.blocks)
    THEN [c EXCEPT !.st.status = COMPLETED, !.t.pc = "returned"]
    ELSE EnterBlock(c)

\* engine.py 164-220: the loop over the blocks, from index c.t.i
RunLoop(c) ==
    IF c.t.i >= Len(c.t.blocks)
    THEN [c EXCEPT !.st.status = COMPLETED, !.t.pc = "returned"]
    ELSE IF c.t.i < c.t.start_block_index
    THEN RunLoop([c EXCEPT !.t.i = c.t.i + 1])
    ELSE EnterBlock(c)

\* engine.py 149-163: execute_workflow from its entry, the state being found
ExecuteFrom(c, blocks, start_block_index, start_row) ==
    RunLoop([c EXCEPT !.st.status = RUNNING,
                      !.st.pause_requested = FALSE,
                      !.st.blocks_config = Some(blocks),
                      !.t = [NoTask EXCEPT !.pc = "running",
                                           !.blocks = blocks,
                                           !.start_block_index = start_block_index,
                                           !.start_row = start_row,
                                           !.current_df = c.df]])


\* ---------------------------------------------------------------- actions
Ctx(w) == [st |-> heap[w], df |-> dataframes[w], t |-> task[w], h |-> hist[w]]

Commit(w, c) ==
    /\ heap' = [heap EXCEPT ![w] = c.st]
    /\ dataframes' = [dataframes EXCEPT ![w] = c.df]
    /\ task' = [task EXCEPT ![w] = c.t]
    /\ hist' = [hist EXCEPT ![w] = c.h]

\* A coroutine that loops without suspending holds the event loop: nothing
\* else of the process runs.
Spinning == \E w \in WIds : task[w].pc = "spin"

\* create_workflow (engine.py 88-116), called by POST /workflows/execute
\* (main.py 159-188), which also schedules run_workflow with the same blocks.
CreateWorkflow(w, blocks) ==
    /\ ~Spinning
    /\ w \in freeIds
    /\ \A j \in 1..Len(blocks) : blocks[j].type \in BlockType
    /\ freeIds' = freeIds \ {w}
    /\ workflows' = workflows \cup {w}
    /\ heap' = [heap EXCEPT ![w] =
                  WorkflowState([j \in 1..Len(blocks) |-> BlockProgress(blocks[j].type)])]
    /\ task' = [task EXCEPT ![w] = [NoTask EXCEPT !.pc = "new", !.blocks = blocks]]
    /\ lastOp' = NoOp
    /\ UNCHANGED <<dataframes, resp, hist>>

\* run_workflow starts: execute_workflow(workflow_id, blocks) (main.py 180-183,
\* engine.py 145-163), up to its first suspension.
ExecuteWorkflow(w) ==
    /\ ~Spinning
    /\ task[w].pc = "new"
    /\ IF w \notin workflows
       THEN /\ task' = [task EXCEPT ![w].pc = "raised"]
            /\ UNCHANGED <<heap, dataframes, hist>>
       ELSE Commit(w, ExecuteFrom(Ctx(w), task[w].blocks, 0, 0))
    /\ lastOp' = NoOp
    /\ UNCHANGED <<workflows, resp, freeIds>>

\* A resume that also restarts a FAILED workflow (line 264 widened).
CanResume_OrFailed(w) ==
    /\ w \in workflows
    /\ heap[w].status \in {PAUSED, FAILED}
    /\ ~IsNone(heap[w].blocks_config)
    /\ Get(heap[w].blocks_config) # <<>>

\* A resume that does not look whether an execution is under way (line 264
\* accepting RUNNING too).
CanResume_OrRunning(w) ==
    /\ w \in workflows
    /\ heap[w].status \in {PAUSED, RUNNING}
    /\ ~IsNone(heap[w].blocks_config)
    /\ Get(heap[w].blocks_config) # <<>>

\* resume_workflow (engine.py 253-277)
CanResume(w) ==
    /\ w \in workflows
    /\ heap[w].status = PAUSED
    /\ ~IsNone(heap[w].blocks_config)
    /\ Get(heap[w].blocks_config) # <<>>

ResumeWorkflow(w) ==
    /\ ~Spinning
    /\ IF CanResume(w)
       THEN /\ Commit(w, ExecuteFrom([Ctx(w) EXCEPT
                                         !.h.resumedAt = heap[w].current_block_index,
                                         !.h.pauseAcc = None],
                                     Get(heap[w].blocks_config),
                                     heap[w].current_block_index,
                                     heap[w].last_processed_row))
            /\ lastOp' = Op("resume", w, "accepted")
       ELSE /\ lastOp' = Op("resume", w, "none")
            /\ UNCHANGED <<heap, dataframes, task, hist>>
    /\ UNCHANGED <<workflows, resp, freeIds>>

\* A request_pause that also accepts a PAUSED workflow (line 295 widened).
CanPause_OrPaused(w) == w \in workflows /\ heap[w].status \in {RUNNING, PAUSED}

\* request_pause (engine.py 284-300)
CanPause(w) == w \in workflows /\ heap[w].status = RUNNING

\* The batch whose join the coroutine awaits, and where it ends.
BatchInFlight(w) ==
    LET t == task[w]
        c == Ctx(w)
        k == t.current_row \div batch_size(c)
    IN [i |-> t.i, k |-> k, total |-> t.total,
        boundary |-> Min((k + 1) * batch_size(c), t.total)]

\* A request_pause that flips the flag instead of setting it.
RequestPause_Toggle(w) ==
    /\ ~Spinning
    /\ IF CanPause(w)
       THEN /\ heap' = [heap EXCEPT ![w].pause_requested = ~@]
            /\ hist' = hist
            /\ lastOp' = [Op("pause", w, "true") EXCEPT
                             !.again = heap[w].pause_requested]
       ELSE /\ lastOp' = Op("pause", w, "false")
            /\ UNCHANGED <<heap, hist>>
    /\ UNCHANGED <<workflows, dataframes, task, resp, freeIds>>

RequestPause(w) ==
    /\ ~Spinning
    /\ IF CanPause(w)
       THEN /\ heap' = [heap EXCEPT ![w].pause_requested = TRUE]
            /\ hist' = IF task[w].pc = "gather" /\ IsNone(hist[w].pauseAcc)
                       THEN [hist EXCEPT ![w].pauseAcc = Some(BatchInFlight(w))]
                       ELSE hist
            /\ lastOp' = [Op("pause", w, "true") EXCEPT
                             !.again = heap[w].pause_requested]
       ELSE /\ lastOp' = Op("pause", w, "false")
            /\ UNCHANGED <<heap, hist>>
    /\ UNCHANGED <<workflows, dataframes, task, resp, freeIds>>

\* A cleanup that empties the frame registry (_dataframes.clear()).
CleanupWorkflow_ClearsAll(w) ==
    /\ ~Spinning
    /\ workflows' = workflows \ {w}
    /\ dataframes' = [v \in WIds |-> None]
    /\ lastOp' = NoOp
    /\ UNCHANGED <<heap, task, resp, hist, freeIds>>

\* cleanup_workflow (engine.py 279-282)
CleanupWorkflow(w) ==
    /\ ~Spinning
    /\ workflows' = workflows \ {w}
    /\ dataframes' = [dataframes EXCEPT ![w] = None]
    /\ lastOp' = NoOp
    /\ UNCHANGED <<heap, task, resp, hist, freeIds>>

\* The executor finished pd.read_csv (csv_blocks.py 61).
ReadDone(w) ==
    /\ ~Spinning
    /\ task[w].pc = "read_io"
    /\ Commit(w, ReadCSVFinish([Ctx(w) EXCEPT !.t.pc = "running"]))
    /\ lastOp' = NoOp
    /\ UNCHANGED <<workflows, resp, freeIds>>

\* The executor finished df.to_csv (csv_blocks.py 104-106).
SaveDone(w) ==
    /\ ~Spinning
    /\ task[w].pc = "save_io"
    /\ Commit(w, SaveCSVFinish([Ctx(w) EXCEPT !.t.pc = "running"]))
    /\ lastOp' = NoOp
    /\ UNCHANGED <<workflows, resp, freeIds>>

\* The client call of task p returns (api_blocks.py 85-101 / 213-224): the
\* task leaves the semaphore and the first waiting task of the batch enters.
TaskComplete(w, p) ==
    /\ ~Spinning
    /\ task[w].pc = "gather"
    /\ p \in 1..Len(task[w].tasks)
    /\ task[w].tasks[p].st = "run"
    /\ LET ts == task[w].tasks
           waiting == {q \in 1..Len(ts) : ts[q].st = "wait"}
           nxt == IF waiting = {} THEN 0
                  ELSE CHOOSE q \in waiting : \A r \in waiting : q <= r
           ts1 == [q \in 1..Len(ts) |->
                      IF q = p THEN [ts[q] EXCEPT !.st = "done"]
                      ELSE IF q = nxt THEN [ts[q] EXCEPT !.st = "run"]
                      ELSE ts[q]]
       IN /\ task' = [task EXCEPT ![w].tasks = ts1]
          /\ hist' = [hist EXCEPT ![w] =
                        [(IF nxt = 0 THEN hist[w]
                          ELSE CountCall(hist[w], task[w].i, ts[nxt].key))
                         EXCEPT !.reordered =
                            @ \/ \E q \in 1..(p - 1) : ts[q].st # "done"]]
    /\ lastOp' = NoOp
    /\ UNCHANGED <<workflows, heap, dataframes, resp, freeIds>>

\* asyncio.gather returns: every task of the batch is done (api_blocks.py 105).
GatherReturn(w) ==
    /\ ~Spinning
    /\ task[w].pc = "gather"
    /\ \A p \in 1..Len(task[w].tasks) : task[w].tasks[p].st = "done"
    /\ Commit(w, AfterGather([Ctx(w) EXCEPT !.t.pc = "running"], resp))
    /\ lastOp' = NoOp
    /\ UNCHANGED <<workflows, resp, freeIds>>

Next ==
    \/ \E w \in WIds, n \in 1..Len(WorkflowInputs) : CreateWorkflow(w, WorkflowInputs[n])
    \/ \E w \in WIds : ExecuteWorkflow(w)
    \/ \E w \in WIds : ResumeWorkflow(w)
    \/ \E w \in WIds : RequestPause(w)
    \/ \E w \in WIds : CleanupWorkflow(w)
    \/ \E w \in WIds : ReadDone(w)
    \/ \E w \in WIds : SaveDone(w)
    \/ \E w \in WIds, p \in 1..MaxRows : TaskComplete(w, p)
    \/ \E w \in WIds : GatherReturn(w)

Spec == Init /\ [][Next]_vars


\* ------------------------------------------------ the uninterrupted run
\* execute_workflow(workflow_id, blocks) with no request_pause: every block
\* runs from row 0 to its end (engine.py 163-220 with the blocks' code).
RefCtx(blocks, i) == [t |-> [blocks |-> blocks, i |-> i]]
AllTasks(keys) == [p \in 1..Len(keys) |-> [key |-> keys[p], st |-> "done"]]

RefBlock(blocks, i, df, rs) ==
    LET c == RefCtx(blocks, i)
        kind == blocks[i + 1].type
        failed == [ok |-> FALSE, f |-> df]
    IN CASE kind = READ_CSV ->
              LET file_path == ConfigGet(Config(c), "file_path", "")
              IN IF file_path = "" \/ file_path \notin ExistingFiles THEN failed
                 ELSE [ok |-> TRUE, f |-> Some(FileFrame(file_path))]
         [] kind = SAVE_CSV ->
              IF IsNone(df) THEN failed ELSE [ok |-> TRUE, f |-> df]
         [] kind = FILTER ->
              LET column == ConfigGet(Config(c), "column", "")
                  operator == ConfigGet(Config(c), "operator", "contains")
                  value == ConfigGet(Config(c), "value", Null)
              IN IF IsNone(df) \/ column = "" THEN failed
                 ELSE IF ~HasCol(Get(df), column) \/ operator \notin KnownOperators
                 THEN failed
                 ELSE LET f == Get(df)
                          mask == [p \in 1..Len(f.rows) |->
                                     FilterMask(operator, value, f.rows[p].cells[column])]
                      IN [ok |-> TRUE, f |-> Some(Frame(f.cols, SelectRows(f.rows, mask)))]
         [] OTHER ->
              IF IsNone(df) \/ FrameLen(Get(df)) = 0 THEN failed
              ELSE LET start == IF kind = ENRICH_LEAD THEN Get(df)
                                ELSE FindEmailPrepare(c, Get(df))
                       todo == IF kind = ENRICH_LEAD THEN FrameKeys(Get(df))
                               ELSE rows_to_process(c, Get(df))
                       applied == ApplyResults(kind, start, AllTasks(todo),
                                               output_col(c), rs)
                   IN IF applied.raised THEN failed
                      ELSE [ok |-> TRUE, f |-> Some(applied.f)]

RECURSIVE RefRun(_, _, _, _, _)
RefRun(blocks, i, df, statuses, rs) ==
    IF i >= Len(blocks)
    THEN [status |-> COMPLETED, df |-> df, statuses |-> statuses]
    ELSE LET r == RefBlock(blocks, i, df, rs)
         IN IF r.ok
            THEN RefRun(blocks, i + 1, r.f, [statuses EXCEPT ![i + 1] = COMPLETED], rs)
            ELSE [status |-> FAILED, df |-> df,
                  statuses |-> [statuses EXCEPT ![i + 1] = FAILED]]

Uninterrupted(blocks, rs) ==
    RefRun(blocks, 0, None, [j \in 1..Len(blocks) |-> PENDING], rs)

BlockStatuses(w) == [j \in 1..Len(heap[w].blocks) |-> heap[w].blocks[j].status]

\* What the resume-equivalence compares: the stored frame, the derived
\* columns and row count, and the blocks' statuses.
SameAsUninterrupted(w) ==
    LET ref == Uninterrupted(task[w].blocks, resp)
    IN /\ dataframes[w] = ref.df
       /\ heap[w].status = ref.status
       /\ BlockStatuses(w) = ref.statuses
       /\ ~IsNone(ref.df) =>
             /\ heap[w].result_columns = Some(Get(ref.df).cols)
             /\ heap[w].result_row_count = FrameLen(Get(ref.df))

\* ----------------------------------------------------------------- claims
Terminal == {COMPLETED, FAILED, PAUSED}

\* C1 as stated: whenever execute_workflow or resume_workflow returns, the
\* workflow's status is one of COMPLETED, FAILED, PAUSED.  A resume_workflow
\* that is refused returns at once, whatever the status is.
C1_EveryReturnTerminal ==
    \A w \in workflows :
        \/ task[w].pc = "returned"
        \/ (lastOp.op = "resume" /\ lastOp.w = w /\ lastOp.ret = "none")
        => heap[w].status \in Terminal

\* C1 amended: whenever an execution returns (execute_workflow called by
\* run_workflow or by a resume_workflow that was accepted), the workflow's
\* status is one of COMPLETED, FAILED, PAUSED.
C1_ExecutionReturnsTerminal ==
    \A w \in WIds : task[w].pc = "returned" => heap[w].status \in Terminal

C1_Witness ==
    \E w \in WIds :
        /\ task[w].pc = "returned"
        /\ hist[w].everPaused
        /\ heap[w].status = COMPLETED

\* C2: a workflow that was paused and resumed (any number of rounds) and
\* reached COMPLETED has the stored frame, result_columns, result_row_count
\* and block statuses of the uninterrupted run with the same client responses.
C2_ResumeEquivalence ==
    \A w \in workflows :
        heap[w].status = COMPLETED /\ hist[w].everPaused => SameAsUninterrupted(w)

\* C3: when a workflow is COMPLETED, every ENRICH_LEAD block has issued
\* exactly one client call for every row of its input frame, whatever pauses
\* and resumes happened on the way.
C3_EnrichOncePerRow ==
    \A w \in WIds : heap[w].status = COMPLETED =>
        \A j \in 1..Len(task[w].blocks) :
            task[w].blocks[j].type = ENRICH_LEAD =>
                \A k \in RowKeys :
                    hist[w].calls[<<j - 1, k>>] =
                        IF \E p \in 1..Len(hist[w].input[j - 1]) :
                               hist[w].input[j - 1][p] = k
                        THEN 1 ELSE 0

C3_Witness ==
    \E w \in WIds :
        /\ heap[w].status = COMPLETED
        /\ hist[w].everPaused
        /\ heap[w].last_processed_row > 0
        /\ Len(task[w].blocks) = 2
        /\ task[w].blocks[2].type = ENRICH_LEAD
        /\ \A k \in RowKeys : hist[w].calls[<<1, k>>] = 1

\* C4: a request_pause accepted while batch k of an enrichment block is in
\* flight makes the execution end PAUSED in that block with
\* last_processed_row = min((k+1) * batch_size, total), also when batch k is
\* the last batch of the block (executions that end FAILED set aside).
C4_BatchBoundaryPause ==
    \A w \in WIds :
        /\ task[w].pc = "returned"
        /\ ~IsNone(hist[w].pauseAcc)
        /\ heap[w].status # FAILED
        => /\ heap[w].status = PAUSED
           /\ heap[w].current_block_index = Get(hist[w].pauseAcc).i
           /\ heap[w].last_processed_row = Get(hist[w].pauseAcc).boundary

\* The result of block kind for row k is in frame f / is not in frame f.
ResultApplied(kind, out, f, k) ==
    IF kind = ENRICH_LEAD
    THEN \A n \in 1..Len(EnrichData(k)) :
            EnrichData(k)[n].key \notin {"success", "error"} =>
                /\ HasCol(f, EnrichData(k)[n].col)
                /\ CellOf(f, k, EnrichData(k)[n].col) = EnrichData(k)[n].value
    ELSE HasCol(f, out) /\ CellOf(f, k, out) = FoundOf(k)

NoResultApplied(kind, out, f, k) ==
    IF kind = ENRICH_LEAD
    THEN \A n \in 1..Len(EnrichData(k)) :
            HasCol(f, EnrichData(k)[n].col) =>
                CellOf(f, k, EnrichData(k)[n].col) = Null
    ELSE HasCol(f, out) => CellOf(f, k, out) = Null

\* C5: while a workflow is PAUSED, the rows of the paused block's row list
\* before last_processed_row have been processed (called, and their result
\* is in the stored frame when the call succeeded), and no row at or after
\* last_processed_row has been called or has a result in the stored frame.
C5_PausedPrefixApplied ==
    \A w \in workflows :
        heap[w].status = PAUSED =>
            LET i == heap[w].current_block_index
                kind == heap[w].blocks[i + 1].block_type
                out == output_col(Ctx(w))
                f == Get(dataframes[w])
                rows == task[w].rows
            IN \A p \in 1..Len(rows) :
                  IF p <= heap[w].last_processed_row
                  THEN /\ hist[w].calls[<<i, rows[p]>>] >= 1
                       /\ resp[rows[p]] = "ok" => ResultApplied(kind, out, f, rows[p])
                  ELSE /\ hist[w].calls[<<i, rows[p]>>] = 0
                       /\ NoResultApplied(kind, out, f, rows[p])

\* C6: while a workflow is PAUSED, the block at current_block_index is
\* PAUSED and every block before it is COMPLETED.
C6_PausedBlocks ==
    \A w \in WIds :
        heap[w].status = PAUSED =>
            LET i == heap[w].current_block_index
            IN /\ i < Len(heap[w].blocks)
               /\ heap[w].blocks[i + 1].status = PAUSED
               /\ \A j \in 1..i : heap[w].blocks[j].status = COMPLETED

C6_Witness ==
    \E w \in WIds :
        /\ heap[w].status = PAUSED
        /\ heap[w].current_block_index = 2
        /\ heap[w].last_processed_row > 0

\* C7: while a workflow is COMPLETED, every block is COMPLETED with
\* progress 100.
C7_CompletedBlocks ==
    \A w \in WIds :
        heap[w].status = COMPLETED =>
            \A j \in 1..Len(heap[w].blocks) :
                /\ heap[w].blocks[j].status = COMPLETED
                /\ heap[w].blocks[j].progress = 100

C7_Witness ==
    \E w \in WIds :
        /\ heap[w].status = COMPLETED
        /\ Len(heap[w].blocks) = 3
        /\ hist[w].everPaused

\* What C8 and C9 say of a FAILED workflow apart from the stored frame:
\* the block at current_block_index is FAILED and carries the workflow's
\* error, the blocks before it are COMPLETED, the blocks after it never ran.
FailedShape(w) ==
    LET i == heap[w].current_block_index
    IN /\ i < Len(heap[w].blocks)
       /\ heap[w].blocks[i + 1].status = FAILED
       /\ ~IsNone(heap[w].error)
       /\ heap[w].blocks[i + 1].error = heap[w].error
       /\ \A j \in 1..i : heap[w].blocks[j].status = COMPLETED
       /\ \A j \in (i + 2)..Len(heap[w].blocks) :
             /\ heap[w].blocks[j].status = PENDING
             /\ \A k \in RowKeys : hist[w].calls[<<j - 1, k>>] = 0

\* C8 as stated: when block i fails, the workflow is FAILED with the shape
\* above and the stored frame is the output of block i-1 (none for block 0).
C8_FailureKeepsPreviousOutput ==
    \A w \in workflows :
        heap[w].status = FAILED =>
            FailedShape(w) /\ dataframes[w] = hist[w].lastOut

\* C8 amended: as stated, except that when block i had been re-entered by
\* resume_workflow the stored frame is the partial frame captured at the
\* pause (which holds the results of block i's rows before the pause).
C8_FailureKeepsStoredFrame ==
    \A w \in workflows :
        heap[w].status = FAILED =>
            /\ FailedShape(w)
            /\ dataframes[w] =
                  IF hist[w].resumedAt = heap[w].current_block_index
                  THEN hist[w].pauseFrame ELSE hist[w].lastOut

C8_Witness ==
    \E w \in workflows :
        /\ heap[w].status = FAILED
        /\ heap[w].current_block_index = 2
        /\ hist[w].resumedAt = -1
        /\ ~IsNone(dataframes[w])
        /\ hist[w].calls[<<2, 0>>] = 1

\* C9: a resumed execution that fails in the block it re-entered: the block
\* went PAUSED -> RUNNING at the resume and RUNNING -> FAILED at the failure,
\* the workflow is FAILED, the earlier blocks are COMPLETED and the stored
\* frame is the partial frame captured at the pause.
ResumedFailure(w) ==
    /\ heap[w].status = FAILED
    /\ hist[w].resumedAt = heap[w].current_block_index

C9_ResumedFailure ==
    /\ [](\A w \in workflows :
             ResumedFailure(w) =>
                 FailedShape(w) /\ dataframes[w] = hist[w].pauseFrame)
    /\ [][\A w \in WIds :
             LET i == heap[w].current_block_index
             IN /\ lastOp' = Op("resume", w, "accepted") =>
                      /\ heap[w].blocks[i + 1].status = PAUSED
                      /\ heap'[w].status = RUNNING =>
                            /\ heap'[w].blocks[i + 1].status = RUNNING
                            /\ heap'[w].current_block_index = i
                /\ ResumedFailure(w)' /\ heap[w].status # FAILED =>
                      /\ heap[w].blocks[i + 1].status =
                            IF lastOp' = Op("resume", w, "accepted")
                            THEN PAUSED ELSE RUNNING
                      /\ heap'[w].blocks[i + 1].status = FAILED
                      /\ heap'[w].current_block_index = i]_vars

C9_Witness ==
    \E w \in workflows :
        /\ ResumedFailure(w)
        /\ heap[w].last_processed_row > 0
        /\ dataframes[w] # hist[w].lastOut

\* C10: a resume_workflow call on a workflow that is not PAUSED (or on an
\* unknown id) returns the cannot-resume indication and changes neither the
\* workflow states nor the stored frames; a call that starts an execution
\* found the workflow PAUSED.
C10_ResumeOnlyFromPaused ==
    [][\A w \in WIds :
          lastOp'.op = "resume" /\ lastOp'.w = w =>
              IF w \in workflows /\ heap[w].status = PAUSED
              THEN lastOp'.ret = "accepted" /\ heap'[w].status # PAUSED
              ELSE /\ lastOp'.ret = "none"
                   /\ UNCHANGED <<workflows, heap, dataframes, task>>]_vars

C10_Witness ==
    /\ lastOp.op = "resume"
    /\ lastOp.ret = "none"
    /\ lastOp.w \in workflows
    /\ heap[lastOp.w].status = RUNNING

\* C11: request_pause returns true exactly when the workflow is registered
\* and RUNNING, and then only sets pause_requested; otherwise it returns
\* false and changes nothing. It never changes a status.
C11_PauseOnlyWhenRunning ==
    [][\A w \in WIds :
          lastOp'.op = "pause" /\ lastOp'.w = w =>
              /\ UNCHANGED <<workflows, dataframes, task>>
              /\ IF w \in workflows /\ heap[w].status = RUNNING
                 THEN /\ lastOp'.ret = "true"
                      /\ heap' = [heap EXCEPT ![w].pause_requested = TRUE]
                 ELSE /\ lastOp'.ret = "false"
                      /\ UNCHANGED heap]_vars

C11_Witness ==
    /\ lastOp.op = "pause"
    /\ lastOp.ret = "false"
    /\ lastOp.w \in workflows
    /\ heap[lastOp.w].status = PAUSED

\* C12: a request_pause on a workflow whose pause_requested is already set
\* changes nothing of the program's state (registries, workflow states,
\* frames, running executions, service), so what follows a repeated request
\* is what follows a single one.
C12_PauseIdempotent ==
    [][\A w \in WIds :
          lastOp'.op = "pause" /\ lastOp'.w = w /\ heap[w].pause_requested =>
              UNCHANGED <<workflows, heap, dataframes, task, resp>>]_vars

C12_Witness ==
    /\ lastOp.op = "pause"
    /\ lastOp.ret = "true"
    /\ lastOp.again
    /\ task[lastOp.w].pc = "gather"
    /\ task[lastOp.w].current_row > 0

\* No call of the service answers with a success that carries no mapping.
NoBadPayload == \A k \in RowKeys : resp[k] # "bad"
IsEnrichment(kind) == kind \in {ENRICH_LEAD, FIND_EMAIL}
\* output_column of block j (1-based) of workflow w
OutputColOf(w, j) ==
    ConfigGet(Get(heap[w].blocks_config)[j].config, "output_column", "found_email")

\* C13: failure results of the client never fail a block: a workflow that
\* is FAILED in an enrichment block had issued no call in it, and in a
\* COMPLETED workflow error is unset, every row whose call failed has no
\* enrichment applied and every row whose call succeeded has its result.
C13_RowFailuresAbsorbed ==
    \A w \in workflows :
        NoBadPayload =>
            LET st == heap[w]
                i == st.current_block_index
                f == Get(dataframes[w])
            IN /\ st.status = FAILED /\ i < Len(st.blocks)
                      /\ IsEnrichment(st.blocks[i + 1].block_type)
                  => \A k \in RowKeys : hist[w].calls[<<i, k>>] = 0
               /\ st.status = COMPLETED =>
                     /\ IsNone(st.error)
                     /\ \A j \in 1..Len(st.blocks) :
                          IsEnrichment(st.blocks[j].block_type) =>
                             \A k \in RowKeys :
                                hist[w].calls[<<j - 1, k>>] >= 1 =>
                                   IF resp[k] = "ok"
                                   THEN ResultApplied(st.blocks[j].block_type,
                                                      OutputColOf(w, j), f, k)
                                   ELSE NoResultApplied(st.blocks[j].block_type,
                                                        OutputColOf(w, j), f, k)

C13_Witness ==
    \E w \in workflows :
        /\ heap[w].status = COMPLETED
        /\ NoBadPayload
        /\ Len(heap[w].blocks) >= 2
        /\ heap[w].blocks[2].block_type = ENRICH_LEAD
        /\ \E k \in RowKeys : resp[k] = "fail" /\ hist[w].calls[<<1, k>>] = 1
        /\ \E k \in RowKeys : resp[k] = "ok" /\ hist[w].calls[<<1, k>>] = 1

\* The client calls of workflow w that have been started and not returned.
InFlight(w) ==
    IF task[w].pc = "gather"
    THEN Cardinality({p \in 1..Len(task[w].tasks) : task[w].tasks[p].st = "run"})
    ELSE 0

\* C14: at every moment the number of client calls in flight for an
\* enrichment block is at most its max_concurrent.
C14_AtMostMaxConcurrent ==
    \A w \in WIds :
        task[w].pc = "gather" => InFlight(w) <= max_concurrent(Ctx(w))

C14_Witness ==
    \E w \in WIds :
        /\ task[w].pc = "gather"
        /\ Len(task[w].tasks) > max_concurrent(Ctx(w))
        /\ InFlight(w) = max_concurrent(Ctx(w))
        /\ \E p \in 1..Len(task[w].tasks) : task[w].tasks[p].st = "done"

\* ------------------------------------- numeric bounds a config can carry
\* Workflows whose enrichment block carries batch_size or max_concurrent
\* below 1 (the blocks read them with config.get and use them as they are,
\* api_blocks.py 51-52 / 165-166), next to one with both at 2.
ConfigInputs ==
    << <<Read("leads.csv"), Enrich(0, 1)>>,
       <<Read("leads.csv"), Enrich(1, 0)>>,
       <<Read("leads.csv"), Enrich(1, -1)>>,
       <<Read("leads.csv"), Enrich(-1, 2)>>,
       <<Read("mixed.csv"), FindEmail("found_email", 0)>>,
       <<Read("leads.csv"), Enrich(2, 2), Save>> >>

NextConfig ==
    \/ \E w \in WIds, n \in 1..Len(ConfigInputs) : CreateWorkflow(w, ConfigInputs[n])
    \/ \E w \in WIds : ExecuteWorkflow(w)
    \/ \E w \in WIds : ResumeWorkflow(w)
    \/ \E w \in WIds : RequestPause(w)
    \/ \E w \in WIds : CleanupWorkflow(w)
    \/ \E w \in WIds : ReadDone(w)
    \/ \E w \in WIds : SaveDone(w)
    \/ \E w \in WIds, p \in 1..MaxRows : TaskComplete(w, p)
    \/ \E w \in WIds : GatherReturn(w)

SpecConfig == Init /\ [][NextConfig]_vars

\* The enrichment block workflow w is inside has a numeric bound below 1.
InvalidBounds(w) ==
    /\ task[w].i < Len(task[w].blocks)
    /\ IsEnrichment(BlockDef(Ctx(w)).type)
    /\ heap[w].blocks[task[w].i + 1].status # PENDING
    /\ (batch_size(Ctx(w)) < 1 \/ max_concurrent(Ctx(w)) < 1)

\* C15: an enrichment block entered with batch_size < 1 or max_concurrent < 1
\* has failed, with the workflow FAILED and an error, without a client call.
C15_InvalidBoundsRejected ==
    \A w \in workflows :
        InvalidBounds(w) =>
            /\ heap[w].status = FAILED
            /\ ~IsNone(heap[w].error)
            /\ \A k \in RowKeys : hist[w].calls[<<task[w].i, k>>] = 0

\* The execution of w waits on something that returns: the executor, the
\* client call of a task that holds the semaphore, or the join of a batch
\* whose tasks are all done.
Awaiting(w) ==
    \/ task[w].pc \in {"read_io", "save_io"}
    \/ /\ task[w].pc = "gather"
       /\ \/ \E p \in 1..Len(task[w].tasks) : task[w].tasks[p].st = "run"
          \/ \A p \in 1..Len(task[w].tasks) : task[w].tasks[p].st = "done"

\* C16: an execution always returns, for every batch_size and max_concurrent
\* a config carries: while the workflow is RUNNING its execution waits on
\* something that returns (it neither loops without suspending nor waits on
\* a semaphore nobody releases), and the cursor of the enrichment loop is
\* strictly greater after every batch.
C16_ExecutionTerminates ==
    /\ [](\A w \in WIds : heap[w].status = RUNNING => Awaiting(w))
    /\ [][\A w \in WIds :
             /\ task[w].pc = "gather"
             /\ task'[w] # task[w]
             /\ task'[w].i = task[w].i
             /\ heap'[w].status # FAILED
             /\ \A p \in 1..Len(task[w].tasks) : task[w].tasks[p].st = "done"
             => task'[w].current_row > task[w].current_row]_vars

\* C17: once cleanup_workflow(w) has returned for a created workflow, no
\* later state has w in the workflow registry or in the frame registry.
C17_CleanupEvicts ==
    \A w \in WIds \ freeIds :
        w \notin workflows => IsNone(dataframes[w])

C19_ProgressMonotone ==
    [][\A w \in WIds :
          \A j \in 1..Len(heap[w].blocks) :
              j <= Len(heap'[w].blocks) =>
                  /\ heap'[w].blocks[j].progress >= heap[w].blocks[j].progress
                  /\ heap'[w].blocks[j].status = COMPLETED =>
                        heap'[w].blocks[j].progress = 100]_vars

\* C20: every registered workflow has blocks_config, with one entry per
\* block and the same kind at every index.
C20_BlocksConfigPresent ==
    \A w \in workflows :
        /\ ~IsNone(heap[w].blocks_config)
        /\ Len(Get(heap[w].blocks_config)) = Len(heap[w].blocks)
        /\ \A j \in 1..Len(heap[w].blocks) :
              heap[w].blocks[j].block_type = Get(heap[w].blocks_config)[j].type

C22_BlocksSequential ==
    \A w \in workflows :
        LET bs == heap[w].blocks
        IN /\ \A j \in 1..Len(bs) :
                 bs[j].status # PENDING =>
                     \A k \in 1..(j - 1) : bs[k].status = COMPLETED
           /\ Cardinality({j \in 1..Len(bs) : bs[j].status = RUNNING}) <= 1

\* The third block is RUNNING in a workflow that was paused and resumed.
C22_Witness ==
    \E w \in workflows :
        /\ Len(heap[w].blocks) = 3
        /\ heap[w].blocks[3].status = RUNNING
        /\ hist[w].everPaused

\* The email cell of row k in the frame a FIND_EMAIL block of workflow w is
\* given: the cell of the file the first block reads (no block before a
\* FIND_EMAIL block writes the email column).
EmailInFile(w, k) ==
    FileRow(ConfigGet(task[w].blocks[1].config, "file_path", ""), k).cells["email"]

\* C23: in a run that was never paused, a FIND_EMAIL block with
\* skip_existing issues no call for a row whose email cell is present and
\* truthy and copies that cell into output_column, and issues exactly one
\* call for every other row; while a batch is in flight the candidates are
\* in source row order, every candidate before the batch has had its call
\* and no candidate after the batch has.
C23_SkipExisting ==
    \A w \in workflows :
        ~hist[w].everPaused =>
            \A j \in 1..Len(heap[w].blocks) :
                heap[w].blocks[j].block_type = FIND_EMAIL =>
                    /\ heap[w].blocks[j].status = COMPLETED =>
                          \A k \in RowKeys :
                              LET e == EmailInFile(w, k)
                              IN IF notna(e) /\ Truthy(e)
                                 THEN /\ hist[w].calls[<<j - 1, k>>] = 0
                                      /\ ~IsNone(dataframes[w]) =>
                                            CellOf(Get(dataframes[w]), k,
                                                   OutputColOf(w, j)) = e
                                 ELSE hist[w].calls[<<j - 1, k>>] = 1
                    /\ task[w].pc = "gather" /\ task[w].i = j - 1 =>
                          LET t == task[w]
                          IN /\ \A p, q \in 1..Len(t.rows) :
                                    p < q => t.rows[p] < t.rows[q]
                             /\ \A p \in 1..Len(t.rows) :
                                    /\ ~(notna(EmailInFile(w, t.rows[p]))
                                          /\ Truthy(EmailInFile(w, t.rows[p])))
                                    /\ hist[w].calls[<<j - 1, t.rows[p]>>] =
                                          IF p <= t.current_row THEN 1
                                          ELSE IF p > t.batch_end THEN 0
                                          ELSE IF t.tasks[p - t.current_row].st = "wait"
                                               THEN 0 ELSE 1

\* mixed.csv went through FIND_EMAIL unpaused: the rows that had an email
\* have it in found_email and were not looked up, the others were.
C23_Witness ==
    \E w \in workflows :
        /\ heap[w].status = COMPLETED
        /\ ~hist[w].everPaused
        /\ Len(heap[w].blocks) = 2
        /\ heap[w].blocks[2].block_type = FIND_EMAIL
        /\ ~IsNone(dataframes[w])
        /\ \E k \in RowKeys :
              /\ hist[w].calls[<<1, k>>] = 0
              /\ CellOf(Get(dataframes[w]), k, "found_email") = EmailOf(k)
        /\ \E k \in RowKeys : hist[w].calls[<<1, k>>] = 1

\* C24: when a workflow is COMPLETED, every FIND_EMAIL block has issued
\* exactly one find_email call for every row that was a candidate in the
\* frame the block was first given, and none for the other rows, whatever
\* pauses and resumes happened on the way and whatever output_column is.
C24_FindEmailOncePerCandidate ==
    \A w \in workflows :
        heap[w].status = COMPLETED =>
            \A j \in 1..Len(heap[w].blocks) :
                heap[w].blocks[j].block_type = FIND_EMAIL =>
                    \A k \in RowKeys :
                        hist[w].calls[<<j - 1, k>>] =
                            IF notna(EmailInFile(w, k)) /\ Truthy(EmailInFile(w, k))
                            THEN 0 ELSE 1

\* C25: while pause_requested is set and until the workflow is resumed, the
\* only client calls that start are those of tasks of the batch in flight
\* that were waiting for the semaphore; and when that batch is joined the
\* results of its successful calls are in the frame the engine stores.
C25_NoNewBatchAfterPause ==
    [][\A w \in WIds :
          heap[w].pause_requested /\ lastOp' # Op("resume", w, "accepted") =>
              /\ \A x \in BlockIdx \X RowKeys :
                    hist'[w].calls[x] > hist[w].calls[x] =>
                        /\ task[w].pc = "gather"
                        /\ x[1] = task[w].i
                        /\ \E p \in 1..Len(task[w].tasks) :
                              /\ task[w].tasks[p].key = x[2]
                              /\ task[w].tasks[p].st = "wait"
              /\ ( /\ task[w].pc = "gather"
                   /\ task'[w].pc # "gather"
                   /\ \A p \in 1..Len(task[w].tasks) :
                         resp[task[w].tasks[p].key] # "bad" )
                 => /\ ~IsNone(dataframes'[w])
                    /\ \A p \in 1..Len(task[w].tasks) :
                          resp[task[w].tasks[p].key] = "ok" =>
                              ResultApplied(task[w].blocks[task[w].i + 1].type,
                                            output_col(Ctx(w)),
                                            Get(dataframes'[w]),
                                            task[w].tasks[p].key)]_vars

\* A pause was requested while a batch that is not the last of its block
\* was in flight, and the execution has stopped at the end of that batch
\* with rows left that were never called.
C25_Witness ==
    \E w \in workflows :
        /\ heap[w].status = PAUSED
        /\ heap[w].pause_requested
        /\ heap[w].last_processed_row > 0
        /\ heap[w].last_processed_row < task[w].total
        /\ \A p \in 1..Len(task[w].rows) :
              p > heap[w].last_processed_row =>
                  hist[w].calls[<<task[w].i, task[w].rows[p]>>] = 0

\* C26: inside an enrichment block the batch in flight is the slice of the
\* row list from the cursor to the cursor plus batch_size (or the end), and
\* no row from the cursor on has a result in the working frame; the working
\* frame changes only when a batch is joined; and a join that leads to the
\* next batch moves the cursor to the end of the joined batch, has the
\* results of the joined batch in the working frame and starts a batch of
\* later rows.
C26_BatchesInOrder ==
    /\ [](\A w \in WIds :
            task[w].pc = "gather" =>
                LET t == task[w]
                    c == Ctx(w)
                IN /\ t.batch_end = Min(t.current_row + batch_size(c), t.total)
                   /\ Len(t.tasks) = t.batch_end - t.current_row
                   /\ \A p \in 1..Len(t.tasks) :
                         t.tasks[p].key = t.rows[t.current_row + p]
                   /\ \A p \in 1..Len(t.rows) :
                         p > t.current_row =>
                             NoResultApplied(BlockDef(c).type, output_col(c),
                                             t.result_df, t.rows[p]))
    /\ [][\A w \in WIds :
            task[w].pc = "gather" /\ task'[w].pc = "gather" =>
                IF \E p \in 1..Len(task[w].tasks) : task[w].tasks[p].st # "done"
                THEN /\ task'[w].result_df = task[w].result_df
                     /\ task'[w].current_row = task[w].current_row
                     /\ task'[w].batch_end = task[w].batch_end
                ELSE task'[w] # task[w] /\ task'[w].i = task[w].i =>
                     /\ task'[w].current_row = task[w].batch_end
                     /\ \A p \in 1..Len(task[w].tasks) :
                           /\ resp[task[w].tasks[p].key] = "ok" =>
                                 ResultApplied(task[w].blocks[task[w].i + 1].type,
                                               output_col(Ctx(w)),
                                               task'[w].result_df,
                                               task[w].tasks[p].key)
                           /\ \A q \in 1..Len(task'[w].tasks) :
                                 task'[w].tasks[q].key > task[w].tasks[p].key]_vars

\* The second batch of two rows is in flight, the first one applied.
C26_Witness ==
    \E w \in workflows :
        /\ task[w].pc = "gather"
        /\ task[w].current_row = 2
        /\ Len(task[w].tasks) = 2
        /\ \E p \in 1..2 :
              /\ resp[task[w].rows[p]] = "ok"
              /\ ResultApplied(task[w].blocks[task[w].i + 1].type, output_col(Ctx(w)),
                               task[w].result_df, task[w].rows[p])

\* C27: the frame an enrichment block of a never-paused run hands over is
\* the one function of the block list and of the per-row client results
\* that the uninterrupted run computes (cells, column set, column order),
\* whatever order the tasks of each batch resolved in, and every successful
\* result is in the row it was computed from.
C27_CompletionOrderInvisible ==
    \A w \in workflows :
        ~hist[w].everPaused =>
            \A j \in 1..Len(heap[w].blocks) :
                ( /\ IsEnrichment(heap[w].blocks[j].block_type)
                  /\ heap[w].blocks[j].status = COMPLETED
                  /\ j < Len(heap[w].blocks) =>
                        heap[w].blocks[j + 1].status # COMPLETED
                  /\ ~IsNone(dataframes[w]) )
                => LET ref == Uninterrupted(SubSeq(task[w].blocks, 1, j), resp)
                       f == Get(dataframes[w])
                   IN /\ dataframes[w] = ref.df
                      /\ \A p \in 1..Len(f.rows) :
                            LET k == f.rows[p].key
                                e == EmailInFile(w, k)
                            IN ( /\ resp[k] = "ok"
                                 /\ heap[w].blocks[j].block_type = FIND_EMAIL =>
                                       ~(notna(e) /\ Truthy(e)) )
                               => ResultApplied(heap[w].blocks[j].block_type,
                                                OutputColOf(w, j), f, k)

\* A filter left rows 0 and 2; their batch resolved last task first, and
\* the workflow is COMPLETED with each result in its own row.
C27_Witness ==
    \E w \in workflows :
        /\ heap[w].status = COMPLETED
        /\ ~hist[w].everPaused
        /\ hist[w].reordered
        /\ ~IsNone(dataframes[w])
        /\ FrameKeys(Get(dataframes[w])) = <<0, 2>>
        /\ resp[0] = "ok" /\ resp[2] = "ok"
        /\ CellOf(Get(dataframes[w]), 2, EnrichData(2)[2].col) = EnrichData(2)[2].value

\* ------------------------------------------ block lists with another kind
\* execute_workflow takes its block list as an argument of its own
\* (engine.py 126-132).  POST /workflows/execute passes the list it created
\* the workflow with, and create_workflow raises on a kind that is no
\* BlockType (line 107), so a kind execute_workflow does not know reaches
\* it only from a caller of the engine that passes a list other than the
\* created one.
Unknown == [type |-> "transform", config |-> [batch_size |-> 1]]

\* created: the list given to create_workflow; blocks: the list given to
\* execute_workflow for the same workflow.
KindInputs ==
    << [created |-> <<Read("leads.csv"), Save>>,
        blocks |-> <<Read("leads.csv"), Unknown>>],
       [created |-> <<Read("leads.csv")>>,
        blocks |-> <<Unknown>>],
       [created |-> <<Read("leads.csv"), Enrich(2, 2), Save>>,
        blocks |-> <<Read("leads.csv"), Enrich(2, 2), Unknown>>],
       [created |-> <<Read("leads.csv"), Enrich(2, 2), Save>>,
        blocks |-> <<Read("leads.csv"), Enrich(2, 2), Save>>] >>

\* create_workflow(created) by a caller that will run
\* execute_workflow(workflow_id, blocks) (engine.py 88-116, 126-132)
CreateWorkflowWith(w, created, blocks) ==
    /\ ~Spinning
    /\ w \in freeIds
    /\ \A j \in 1..Len(created) : created[j].type \in BlockType
    /\ freeIds' = freeIds \ {w}
    /\ workflows' = workflows \cup {w}
    /\ heap' = [heap EXCEPT ![w] =
                  WorkflowState([j \in 1..Len(created) |-> BlockProgress(created[j].type)])]
    /\ task' = [task EXCEPT ![w] = [NoTask EXCEPT !.pc = "new", !.blocks = blocks]]
    /\ lastOp' = NoOp
    /\ UNCHANGED <<dataframes, resp, hist>>

NextKinds ==
    \/ \E w \in WIds, n \in 1..Len(KindInputs) :
          CreateWorkflowWith(w, KindInputs[n].created, KindInputs[n].blocks)
    \/ \E w \in WIds : ExecuteWorkflow(w)
    \/ \E w \in WIds : ResumeWorkflow(w)
    \/ \E w \in WIds : RequestPause(w)
    \/ \E w \in WIds : CleanupWorkflow(w)
    \/ \E w \in WIds : ReadDone(w)
    \/ \E w \in WIds : SaveDone(w)
    \/ \E w \in WIds, p \in 1..MaxRows : TaskComplete(w, p)
    \/ \E w \in WIds : GatherReturn(w)

SpecKinds == Init /\ [][NextKinds]_vars

\* C28: a workflow that is FAILED because execute_workflow met a block
\* definition of a kind it does not know has that block, the first of such
\* a kind in its list, marked FAILED, and every block before it COMPLETED.
C28_UnknownKindFailsItsBlock ==
    \A w \in workflows :
        heap[w].status = FAILED /\ heap[w].error = Some("is not a valid BlockType") =>
            \E i \in 1..Len(task[w].blocks) :
                /\ task[w].blocks[i].type \notin BlockType
                /\ \A k \in 1..(i - 1) : task[w].blocks[k].type \in BlockType
                /\ heap[w].blocks[i].status = FAILED
                /\ \A k \in 1..(i - 1) : heap[w].blocks[k].status = COMPLETED

\* C29: a workflow is PAUSED only in an enrichment block; a workflow whose
\* blocks are all READ_CSV, FILTER or SAVE_CSV is never PAUSED, whatever
\* request_pause calls were accepted while it ran.
C29_OnlyEnrichmentPauses ==
    \A w \in workflows :
        /\ heap[w].status = PAUSED =>
              /\ heap[w].current_block_index < Len(heap[w].blocks)
              /\ IsEnrichment(heap[w].blocks[heap[w].current_block_index + 1].block_type)
        /\ (\A j \in 1..Len(heap[w].blocks) :
                ~IsEnrichment(heap[w].blocks[j].block_type))
           => heap[w].status # PAUSED /\ ~hist[w].everPaused

\* Read, filter, save ran to the end although a pause request was accepted
\* on the way (the flag is still set).
C29_Witness ==
    \E w \in workflows :
        /\ heap[w].status = COMPLETED
        /\ heap[w].pause_requested
        /\ Len(heap[w].blocks) = 3
        /\ \A j \in 1..3 : ~IsEnrichment(heap[w].blocks[j].block_type)

\* The frame block j (1-based) of workflow w is given: what the blocks
\* before it hand over (engine.py 194-200, current_df).
InputOf(w, j) == Uninterrupted(SubSeq(task[w].blocks, 1, j - 1), resp).df

\* C30: no enrichment block and no filter block completes on a null frame
\* or on a frame with zero rows: a block of these kinds that is COMPLETED
\* was given a frame with at least one row.
C30_EmptyInputFails ==
    \A w \in workflows :
        \A j \in 1..Len(heap[w].blocks) :
            ( /\ heap[w].blocks[j].block_type \in {FILTER, ENRICH_LEAD, FIND_EMAIL}
              /\ heap[w].blocks[j].status = COMPLETED )
            => /\ ~IsNone(InputOf(w, j))
               /\ FrameLen(Get(InputOf(w, j))) > 0

\* ------------------------------------------------ two workflows at once
\* Two POST /workflows/execute requests: uuid4 gives each its own id
\* (engine.py 100), and both executions run on the one event loop.  The
\* first id goes to the first list, the second id to the second.
TwoInputs ==
    << <<Read("leads.csv"), Enrich(2, 1), Save>>,
       <<Read("mixed.csv"), FindEmail("found_email", 1)>> >>

\* The remote service answers every row, or fails the first one.
InitTwo ==
    /\ workflows = {}
    /\ heap = [w \in WIds |-> NoState]
    /\ dataframes = [w \in WIds |-> None]
    /\ task = [w \in WIds |-> NoTask]
    /\ resp \in {[k \in RowKeys |-> "ok"],
                 [k \in RowKeys |-> IF k = 0 THEN "fail" ELSE "ok"]}
    /\ hist = [w \in WIds |-> NoHist]
    /\ lastOp = NoOp
    /\ freeIds = WIds

NextTwo ==
    \/ \E w \in WIds : CreateWorkflow(w, TwoInputs[w])
    \/ \E w \in WIds : ExecuteWorkflow(w)
    \/ \E w \in WIds : ResumeWorkflow(w)
    \/ \E w \in WIds : RequestPause(w)
    \/ \E w \in WIds : CleanupWorkflow(w)
    \/ \E w \in WIds : ReadDone(w)
    \/ \E w \in WIds : SaveDone(w)
    \/ \E w \in WIds, p \in 1..MaxRows : TaskComplete(w, p)
    \/ \E w \in WIds : GatherReturn(w)

SpecTwo == InitTwo /\ [][NextTwo]_vars

\* What the engine holds for workflow w: its registry membership, its
\* WorkflowState and its stored frame.
EngineView(w) == <<w \in workflows, heap[w], dataframes[w]>>

\* C31: no step changes what the engine holds for two workflows, and a
\* request_pause or resume_workflow applied to workflow a, a step of a's
\* execution and a cleanup of a leave what it holds for any other workflow
\* unchanged.
C31_WorkflowsIsolated ==
    [][\A a, b \in WIds :
          a # b =>
              /\ EngineView(a)' # EngineView(a) => EngineView(b)' = EngineView(b)
              /\ task'[a] # task[a] => EngineView(b)' = EngineView(b)
              /\ lastOp'.w = a => EngineView(b)' = EngineView(b)]_vars

\* Both workflows await a batch, and a pause has just been accepted for
\* one of them while the other has none requested.
C31_Witness ==
    \E a, b \in workflows :
        /\ a # b
        /\ task[a].pc = "gather" /\ task[b].pc = "gather"
        /\ lastOp = Op("pause", a, "true")
        /\ heap[a].pause_requested
        /\ ~heap[b].pause_requested
        /\ heap[b].status = RUNNING

\* Row k was a row for block j (1-based) of workflow w to call the client
\* for: a row of the frame the block was first given and, for FIND_EMAIL,
\* one without an email to copy.
WasCandidate(w, j, k) ==
    /\ \E p \in 1..Len(hist[w].input[j - 1]) : hist[w].input[j - 1][p] = k
    /\ heap[w].blocks[j].block_type = FIND_EMAIL =>
          ~(notna(EmailInFile(w, k)) /\ Truthy(EmailInFile(w, k)))

\* C32: an accepted resume_workflow leaves pause_requested cleared and
\* re-enters the paused block at last_processed_row; a block entered by any
\* other step starts at row 0; and an execution that has returned after a
\* resume with no pause requested since is COMPLETED or FAILED, and when
\* COMPLETED every row its enrichment blocks had to call has been called.
C32_ResumeRunsToTheEnd ==
    /\ [](\A w \in workflows :
            ( /\ task[w].pc = "returned"
              /\ hist[w].everPaused
              /\ ~heap[w].pause_requested )
            => /\ heap[w].status \in {COMPLETED, FAILED}
               /\ heap[w].status = COMPLETED =>
                     \A j \in 1..Len(heap[w].blocks) :
                         IsEnrichment(heap[w].blocks[j].block_type) =>
                             \A k \in RowKeys :
                                 WasCandidate(w, j, k) =>
                                     hist[w].calls[<<j - 1, k>>] >= 1)
    /\ [][\A w \in WIds :
            /\ lastOp' = Op("resume", w, "accepted") =>
                  /\ ~heap'[w].pause_requested
                  /\ task'[w].pc = "gather" =>
                        /\ task'[w].i = heap[w].current_block_index
                        /\ task'[w].current_row = heap[w].last_processed_row
            /\ ( /\ lastOp' # Op("resume", w, "accepted")
                 /\ task'[w].pc = "gather"
                 /\ task[w].pc # "gather" \/ task'[w].i # task[w].i )
               => task'[w].current_row = 0]_vars

\* C33: whenever a workflow is PAUSED its pause_requested is set, and
\* pause_requested goes from set to cleared only in the step of an accepted
\* resume_workflow, which finds the workflow PAUSED and switches it to
\* RUNNING.
C33_PauseFlagKept ==
    /\ [](\A w \in WIds : heap[w].status = PAUSED => heap[w].pause_requested)
    /\ [][\A w \in WIds :
            heap[w].pause_requested /\ ~heap'[w].pause_requested =>
                /\ lastOp' = Op("resume", w, "accepted")
                /\ heap[w].status = PAUSED
                /\ heap'[w].status # PAUSED]_vars

\* A resume has just been accepted: the flag that was set while PAUSED is
\* cleared and the execution is awaiting the next batch.
C33_Witness ==
    \E w \in workflows :
        /\ lastOp = Op("resume", w, "accepted")
        /\ heap[w].status = RUNNING
        /\ ~heap[w].pause_requested
        /\ task[w].pc = "gather"
        /\ task[w].current_row > 0

\* C34: a resume_workflow call is accepted only for a PAUSED workflow whose
\* execution has returned, and it leaves the workflow not PAUSED before any
\* other call can run; a resume_workflow call that finds the workflow
\* RUNNING is rejected and changes nothing; and no row of a block gets more
\* than one client call.
C34_OneExecutionPerResume ==
    /\ [](\A w \in WIds :
            /\ heap[w].status = PAUSED => task[w].pc = "returned"
            /\ \A x \in BlockIdx \X RowKeys : hist[w].calls[x] <= 1)
    /\ [][\A w \in WIds :
            /\ lastOp' = Op("resume", w, "accepted") =>
                  /\ heap[w].status = PAUSED
                  /\ task[w].pc = "returned"
                  /\ heap'[w].status # PAUSED
            /\ ( /\ lastOp'.op = "resume"
                 /\ lastOp'.w = w
                 /\ heap[w].status = RUNNING )
               => /\ lastOp'.ret = "none"
                  /\ heap'[w] = heap[w]
                  /\ task'[w] = task[w]
                  /\ hist'[w] = hist[w]]_vars

\* A second resume_workflow call has just been rejected while the
\* execution the first one started awaits a batch of the resumed block.
C34_Witness ==
    \E w \in workflows :
        /\ lastOp = Op("resume", w, "none")
        /\ heap[w].status = RUNNING
        /\ hist[w].everPaused
        /\ hist[w].resumedAt = task[w].i
        /\ task[w].pc = "gather"
        /\ task[w].current_row > 0

====
